---- MODULE Spec2Model ----
(***************************************************************************)
(* Model of pyastro16.py: worker processes of a process pool that share a  *)
(* counter (a value and its lock) and a flat block of memory viewed as a   *)
(* two-dimensional array.  Every worker has its own module globals         *)
(* gbl_counter, gbl_output and gbl_noutput, bound by an initializer.       *)
(* A call is a sequence of steps; steps of different workers interleave.   *)
(***************************************************************************)
EXTENDS Integers, FiniteSets, Sequences, TLC

\* ------------------------------------------------------------- bounds
NumWorkers == 2        \* worker processes of the pool
MaxCalls == 3          \* calls dispatched in one run, over all workers
MaxRandom == 2         \* calls of random among them
InitValue == 0         \* value of the counter when the workers start

Workers == 1..NumWorkers
Funcs == {"counter", "counter_nolock", "random"}
\* What a call can raise: the three errors of the lookups and the libraries,
\* and "Exception" for whatever interrupts the increment.
Errors == {"NameError", "ValueError", "IndexError", "Exception"}
Unbound == <<>>        \* a global name that no initializer has assigned
Bound(x) == <<x>>      \* a global name assigned the object x
Deref(g) == g[1]       \* the object a bound name refers to
Free == 0              \* the lock has no owner
NoArg == 0             \* arguments the function does not use

\* The tuple output[1] handed to random_init.
Shape == <<2, 2>>
Rows == Shape[1]
Cols == Shape[2]
\* Row indices the orchestrator may hand to random: the rows, the negative
\* alias of the last row, and one index beyond each end.
Idxs == {0 - (Rows + 1), 0 - 1} \cup (0..Rows)
\* Shape parameters handed to random; zipf rejects a <= 1.
Pars == {1, 2}
\* Samples the model lets zipf return, out of the integers >= 1.
SampleValues == {1, 2}

VARIABLES
    value,        \* gbl_counter.value, in shared memory
    lock,         \* owner of gbl_counter.get_lock(), or Free
    shm,          \* output[0], the flat shared block: cell -> number
    gbl_counter,  \* per worker: Unbound or Bound("counter")
    gbl_output,   \* per worker: Unbound or Bound(shape of the 2D view)
    gbl_noutput,  \* per worker: Unbound or Bound(cached column count)
    pc,           \* per worker: position inside the running call
    call,         \* per worker: the running call [f, idx, par]
    tmp,          \* per worker: the value read by "+= 1" before the store
    samples,      \* per worker: the row zipf returned
    col,          \* per worker: next column the row assignment copies
    ncalls,       \* history: calls begun, per function
    nreturned,    \* history: calls that returned normally, per function
    nraised,      \* history: calls that raised, per kind of exception
    ndraws,       \* history: per idx, the calls random(idx, par) that drew
    drawn,        \* history: per idx, the sample rows those calls drew
    stale,        \* history: an unlocked store wrote back an overtaken read
    nstored       \* history: calls of random whose row assignment is done

vars == <<value, lock, shm, gbl_counter, gbl_output, gbl_noutput, pc, call,
          tmp, samples, col, ncalls, nreturned, nraised, ndraws, drawn,
          stale, nstored>>

shared == <<value, lock, shm>>
globals == <<gbl_counter, gbl_output, gbl_noutput>>
locals == <<tmp, samples, col>>
history == <<ncalls, nreturned, nraised, ndraws, drawn, stale, nstored>>

\* ------------------------------------------------------------ helpers
\* Variant: the upper end of the index check is off by one.
ValidIdxOffByOne(shape, idx) == (0 - shape[1]) <= idx /\ idx <= shape[1]

\* numpy accepts idx in -R..R-1 for a first dimension of R rows.
ValidIdx(shape, idx) == (0 - shape[1]) <= idx /\ idx < shape[1]

\* A negative index counts from the end.
RowOf(shape, idx) == IF idx < 0 THEN idx + shape[1] ELSE idx

\* Variant: the view is laid out with a stride of one cell per row.
FlatNoStride(shape, r, c) == r + c

\* reshape(output[1]): element [r, c] of the view is cell r * ncols + c of
\* the flat block (row-major).
Flat(shape, r, c) == r * shape[2] + c

\* The indices of the model that address a row of the buffer.
RowIdxs == {i \in Idxs : ValidIdx(Shape, i)}

\* Variant: the sampler lets a = 1 through.
ZipfAcceptsOne(par) == par >= 1

\* zipf(a, size) raises ValueError unless a > 1.
ZipfAccepts(par) == par > 1

\* The rows zipf(par, n) can return: n integers >= 1.
ZipfRows(n) == [1..n -> SampleValues]

Total(f) == f["counter"] + f["counter_nolock"] + f["random"]

NoCall == [f |-> "none", idx |-> NoArg, par |-> NoArg]

\* A call ends: back to idle with its outcome recorded; the frame's local
\* values are gone.
Finish(w, how) ==
    /\ pc' = [pc EXCEPT ![w] = "idle"]
    /\ IF how = "returned"
       THEN /\ nreturned' = [nreturned EXCEPT ![call[w].f] = @ + 1]
            /\ UNCHANGED nraised
       ELSE /\ nraised' = [nraised EXCEPT ![how] = @ + 1]
            /\ UNCHANGED nreturned
    /\ call' = [call EXCEPT ![w] = NoCall]
    /\ tmp' = [tmp EXCEPT ![w] = 0]
    /\ samples' = [samples EXCEPT ![w] = <<>>]
    /\ col' = [col EXCEPT ![w] = 0]

\* ---------------------------------------------------------------- Init
Init ==
    /\ value = InitValue
    /\ lock = Free
    /\ shm = [i \in 0..(Rows * Cols - 1) |-> 0]
    /\ gbl_counter = [w \in Workers |-> Unbound]
    /\ gbl_output = [w \in Workers |-> Unbound]
    /\ gbl_noutput = [w \in Workers |-> Unbound]
    /\ pc = [w \in Workers |-> "idle"]
    /\ call = [w \in Workers |-> NoCall]
    /\ tmp = [w \in Workers |-> 0]
    /\ samples = [w \in Workers |-> <<>>]
    /\ col = [w \in Workers |-> 0]
    /\ ncalls = [f \in Funcs |-> 0]
    /\ nreturned = [f \in Funcs |-> 0]
    /\ nraised = [e \in Errors |-> 0]
    /\ ndraws = [i \in RowIdxs |-> 0]
    /\ drawn = [i \in RowIdxs |-> {}]
    /\ stale = FALSE
    /\ nstored = 0

\* -------------------------------------------------------- initializers
\* A worker runs one initializer, between calls.
Fresh(w) ==
    /\ pc[w] = "idle"
    /\ gbl_counter[w] = Unbound

counter_init(w) ==
    /\ Fresh(w)
    /\ gbl_counter' = [gbl_counter EXCEPT ![w] = Bound("counter")]
    /\ UNCHANGED <<shared, gbl_output, gbl_noutput, pc, call, locals, history>>

\* Variant: the initializer also clears the buffer it wraps.
random_init_clears(w, output) ==
    /\ Fresh(w)
    /\ gbl_counter' = [gbl_counter EXCEPT ![w] = Bound("counter")]
    /\ gbl_output' = [gbl_output EXCEPT ![w] = Bound(output[2])]
    /\ gbl_noutput' = [gbl_noutput EXCEPT ![w] = Bound(output[2][2])]
    /\ shm' = [i \in DOMAIN shm |-> 0]
    /\ UNCHANGED <<value, lock, pc, call, locals, history>>

random_init(w, output) ==
    /\ Fresh(w)
    /\ gbl_counter' = [gbl_counter EXCEPT ![w] = Bound("counter")]
    /\ gbl_output' = [gbl_output EXCEPT ![w] = Bound(output[2])]
    /\ gbl_noutput' = [gbl_noutput EXCEPT ![w] = Bound(output[2][2])]
    /\ UNCHANGED <<shared, pc, call, locals, history>>

\* ------------------------------------------------------- call dispatch
\* The orchestrator hands a work item to an idle worker.
BeginCall(w, f, idx, par) ==
    /\ pc[w] = "idle"
    /\ Total(ncalls) < MaxCalls
    /\ f = "random" => ncalls["random"] < MaxRandom
    /\ pc' = [pc EXCEPT ![w] = CASE f = "counter" -> "enter"
                                 [] f = "counter_nolock" -> "n_read"
                                 [] OTHER -> "draw"]
    /\ call' = [call EXCEPT ![w] = [f |-> f, idx |-> idx, par |-> par]]
    /\ ncalls' = [ncalls EXCEPT ![f] = @ + 1]
    /\ UNCHANGED <<shared, globals, locals, nreturned, nraised, ndraws, drawn,
                   stale, nstored>>

\* ------------------------------------------- counter / locked increment
\* "with gbl_counter.get_lock():" -- the name is looked up, then the lock is
\* taken, waiting while another process owns it.
NameErrorAtEnter(w) ==
    /\ pc[w] = "enter"
    /\ gbl_counter[w] = Unbound
    /\ Finish(w, "NameError")
    /\ UNCHANGED <<shared, globals, ncalls, ndraws, drawn, stale, nstored>>

\* Variant: the lock is taken without waiting for its owner to release it.
AcquireNoWait(w) ==
    /\ pc[w] = "enter"
    /\ gbl_counter[w] # Unbound
    /\ lock' = w
    /\ pc' = [pc EXCEPT ![w] = "read"]
    /\ UNCHANGED <<value, shm, globals, call, locals, history>>

\* Variant: the counter is reached although the worker never bound it (as
\* if the name had leaked in from the parent process).
AcquireUnchecked(w) ==
    /\ pc[w] = "enter"
    /\ lock = Free
    /\ lock' = w
    /\ pc' = [pc EXCEPT ![w] = "read"]
    /\ UNCHANGED <<value, shm, globals, call, locals, history>>

Acquire(w) ==
    /\ pc[w] = "enter"
    /\ gbl_counter[w] # Unbound
    /\ lock = Free
    /\ lock' = w
    /\ pc' = [pc EXCEPT ![w] = "read"]
    /\ UNCHANGED <<value, shm, globals, call, locals, history>>

\* "gbl_counter.value += 1", first half: load the value.
LockedRead(w) ==
    /\ pc[w] = "read"
    /\ tmp' = [tmp EXCEPT ![w] = value]
    /\ pc' = [pc EXCEPT ![w] = "write"]
    /\ UNCHANGED <<shared, globals, call, samples, col, history>>

\* "gbl_counter.value += 1", second half: store the sum.
LockedWrite(w) ==
    /\ pc[w] = "write"
    /\ value' = tmp[w] + 1
    /\ pc' = [pc EXCEPT ![w] = "exit"]
    /\ UNCHANGED <<lock, shm, globals, call, locals, history>>

\* The increment raises inside the with block, before the store (an interrupt
\* delivered to the worker, for instance): control goes to the block's exit.
IncrementRaises(w) ==
    /\ pc[w] = "write"
    /\ pc' = [pc EXCEPT ![w] = "unwind"]
    /\ UNCHANGED <<shared, globals, call, locals, history>>

\* Variant: acquire() and release() written out without try/finally, so
\* that an exception skips the release.
ReleaseOnReturnOnly(w) ==
    /\ pc[w] \in {"exit", "unwind"}
    /\ lock' = IF pc[w] = "exit" THEN Free ELSE lock
    /\ Finish(w, IF pc[w] = "exit" THEN "returned" ELSE "Exception")
    /\ UNCHANGED <<value, shm, globals, ncalls, ndraws, drawn, stale, nstored>>

\* The with block's exit releases the lock, on the normal path and on the
\* exceptional one, and the call ends.
Release(w) ==
    /\ pc[w] \in {"exit", "unwind"}
    /\ lock' = Free
    /\ Finish(w, IF pc[w] = "exit" THEN "returned" ELSE "Exception")
    /\ UNCHANGED <<value, shm, globals, ncalls, ndraws, drawn, stale, nstored>>

\* ------------------------------------------------------ counter_nolock
NameErrorAtNolock(w) ==
    /\ pc[w] = "n_read"
    /\ gbl_counter[w] = Unbound
    /\ Finish(w, "NameError")
    /\ UNCHANGED <<shared, globals, ncalls, ndraws, drawn, stale, nstored>>

\* "gbl_counter.value += 1" outside any lock, first half: load the value.
\* The function itself takes no lock around the load and the store; they are
\* two steps, and any step of another worker may come between them.
NolockRead(w) ==
    /\ pc[w] = "n_read"
    /\ gbl_counter[w] # Unbound
    /\ tmp' = [tmp EXCEPT ![w] = value]
    /\ pc' = [pc EXCEPT ![w] = "n_write"]
    /\ UNCHANGED <<shared, globals, call, samples, col, history>>

\* Variant: the unlocked increment is one indivisible step.
NolockWriteAtomic(w) ==
    /\ pc[w] = "n_write"
    /\ value' = value + 1
    /\ stale' = (stale \/ tmp[w] # value)
    /\ Finish(w, "returned")
    /\ UNCHANGED <<lock, shm, globals, ncalls, ndraws, drawn, nstored>>

\* Variant: the unlocked increment adds two.
NolockWriteTwo(w) ==
    /\ pc[w] = "n_write"
    /\ value' = tmp[w] + 2
    /\ stale' = (stale \/ tmp[w] # value)
    /\ Finish(w, "returned")
    /\ UNCHANGED <<lock, shm, globals, ncalls, ndraws, drawn, nstored>>

\* "gbl_counter.value += 1", second half: the sum is stored and the call
\* returns.
NolockWrite(w) ==
    /\ pc[w] = "n_write"
    /\ value' = tmp[w] + 1
    /\ stale' = (stale \/ tmp[w] # value)
    /\ Finish(w, "returned")
    /\ UNCHANGED <<lock, shm, globals, ncalls, ndraws, drawn, nstored>>

\* -------------------------------------------------------------- random
\* Right-hand side of line 54: gbl_noutput is looked up, then zipf draws.
NameErrorAtDraw(w) ==
    /\ pc[w] = "draw"
    /\ gbl_noutput[w] = Unbound
    /\ Finish(w, "NameError")
    /\ UNCHANGED <<shared, globals, ncalls, ndraws, drawn, stale, nstored>>

ZipfRejects(w) ==
    /\ pc[w] = "draw"
    /\ gbl_noutput[w] # Unbound
    /\ ~ZipfAccepts(call[w].par)
    /\ Finish(w, "ValueError")
    /\ UNCHANGED <<shared, globals, ncalls, ndraws, drawn, stale, nstored>>

\* Variant: the samples are bound to a name of the worker instead of being
\* assigned into the shared buffer, and the call goes on to the increment.
DrawSkipsStore(w, s) ==
    /\ pc[w] = "draw"
    /\ gbl_noutput[w] # Unbound
    /\ ZipfAccepts(call[w].par)
    /\ s \in ZipfRows(Deref(gbl_noutput[w]))
    /\ samples' = [samples EXCEPT ![w] = s]
    /\ col' = [col EXCEPT ![w] = Len(s)]
    /\ pc' = [pc EXCEPT ![w] = "enter"]
    /\ UNCHANGED <<shared, globals, call, tmp, history>>

\* zipf returns a row of gbl_noutput samples, the value of the right-hand
\* side.
Draw(w, s) ==
    /\ pc[w] = "draw"
    /\ gbl_noutput[w] # Unbound
    /\ ZipfAccepts(call[w].par)
    /\ s \in ZipfRows(Deref(gbl_noutput[w]))
    /\ samples' = [samples EXCEPT ![w] = s]
    /\ col' = [col EXCEPT ![w] = 0]
    /\ pc' = [pc EXCEPT ![w] = "store"]
    /\ IF call[w].idx \in RowIdxs
       THEN /\ drawn' = [drawn EXCEPT ![call[w].idx] = @ \cup {s}]
            /\ ndraws' = [ndraws EXCEPT ![call[w].idx] = @ + 1]
       ELSE UNCHANGED <<drawn, ndraws>>
    /\ UNCHANGED <<shared, globals, call, tmp, ncalls, nreturned, nraised,
                   stale, nstored>>

\* Left-hand side of line 54: the index is checked against the view ...
IndexErrorAtStore(w) ==
    /\ pc[w] = "store"
    /\ ~ValidIdx(Deref(gbl_output[w]), call[w].idx)
    /\ Finish(w, "IndexError")
    /\ UNCHANGED <<shared, globals, ncalls, ndraws, drawn, stale, nstored>>

\* Variant: the assignment targets gbl_output[:] and fills every row.
StoreElemAllRows(w) ==
    /\ pc[w] = "store"
    /\ ValidIdx(Deref(gbl_output[w]), call[w].idx)
    /\ shm' = [i \in DOMAIN shm |->
                 IF \E r \in 0..(Deref(gbl_output[w])[1] - 1) :
                        i = Flat(Deref(gbl_output[w]), r, col[w])
                 THEN samples[w][col[w] + 1] ELSE shm[i]]
    /\ col' = [col EXCEPT ![w] = @ + 1]
    /\ pc' = [pc EXCEPT ![w] = IF col[w] + 1 = Len(samples[w])
                               THEN "enter" ELSE "store"]
    /\ nstored' = IF col[w] + 1 = Len(samples[w]) THEN nstored + 1 ELSE nstored
    /\ UNCHANGED <<value, lock, globals, call, tmp, samples, ncalls, nreturned,
                   nraised, ndraws, drawn, stale>>

\* Variant: the samples are copied in reverse order.
StoreElemReversed(w) ==
    /\ pc[w] = "store"
    /\ ValidIdx(Deref(gbl_output[w]), call[w].idx)
    /\ shm' = [shm EXCEPT ![Flat(Deref(gbl_output[w]),
                                 RowOf(Deref(gbl_output[w]), call[w].idx), col[w])]
                              = samples[w][Len(samples[w]) - col[w]]]
    /\ col' = [col EXCEPT ![w] = @ + 1]
    /\ pc' = [pc EXCEPT ![w] = IF col[w] + 1 = Len(samples[w])
                               THEN "enter" ELSE "store"]
    /\ nstored' = IF col[w] + 1 = Len(samples[w]) THEN nstored + 1 ELSE nstored
    /\ UNCHANGED <<value, lock, globals, call, tmp, samples, ncalls, nreturned,
                   nraised, ndraws, drawn, stale>>

\* ... and the samples are copied into the row, one element after another;
\* the copy is not atomic with respect to the other processes.  The element
\* type of the buffer is the orchestrator's choice; the samples of the model
\* are small enough to be stored unchanged in any numeric type.
StoreElem(w) ==
    /\ pc[w] = "store"
    /\ ValidIdx(Deref(gbl_output[w]), call[w].idx)
    /\ shm' = [shm EXCEPT ![Flat(Deref(gbl_output[w]),
                                 RowOf(Deref(gbl_output[w]), call[w].idx), col[w])]
                              = samples[w][col[w] + 1]]
    /\ col' = [col EXCEPT ![w] = @ + 1]
    /\ pc' = [pc EXCEPT ![w] = IF col[w] + 1 = Len(samples[w])
                               THEN "enter" ELSE "store"]
    /\ nstored' = IF col[w] + 1 = Len(samples[w]) THEN nstored + 1 ELSE nstored
    /\ UNCHANGED <<value, lock, globals, call, tmp, samples, ncalls, nreturned,
                   nraised, ndraws, drawn, stale>>

\* ---------------------------------------------------------------- Next
\* Steps of the with block, shared by counter (lines 25-26) and random
\* (lines 55-56).
LockedStep(w) ==
    \/ Acquire(w)
    \/ LockedRead(w)
    \/ LockedWrite(w)
    \/ Release(w)

NolockStep(w) ==
    \/ NolockRead(w)
    \/ NolockWrite(w)

RandomStep(w, rows) ==
    \/ ZipfRejects(w)
    \/ \E s \in rows : Draw(w, s)
    \/ IndexErrorAtStore(w)
    \/ StoreElem(w)

\* A function looks up a global that no initializer of the worker has bound.
UnboundStep(w) ==
    \/ NameErrorAtEnter(w)
    \/ NameErrorAtNolock(w)
    \/ NameErrorAtDraw(w)

\* The pool's initializer has run in the worker.
Started(w) == gbl_counter[w] # Unbound

\* A pool whose workers run either initializer, or none at all, and are
\* handed calls of the three functions; random is given a row inside and a
\* row outside the buffer, and zipf returns rows of ones.
Next ==
    \E w \in Workers :
        \/ counter_init(w)
        \/ random_init(w, <<"RawArray", Shape>>)
        \/ \E f \in {"counter", "counter_nolock"} : BeginCall(w, f, NoArg, NoArg)
        \/ \E idx \in {0, Rows}, par \in Pars : BeginCall(w, "random", idx, par)
        \/ LockedStep(w)
        \/ IncrementRaises(w)
        \/ NolockStep(w)
        \/ RandomStep(w, {[c \in 1..Cols |-> 1]})
        \/ UnboundStep(w)

Spec == Init /\ [][Next]_vars

\* A pool created with initializer counter_init and mapped over counter and
\* counter_nolock: a worker runs the initializer before its first call.
NextCounter ==
    \E w \in Workers :
        \/ counter_init(w)
        \/ \E f \in {"counter", "counter_nolock"} :
               Started(w) /\ BeginCall(w, f, NoArg, NoArg)
        \/ LockedStep(w)
        \/ IncrementRaises(w)
        \/ NolockStep(w)

SpecCounter == Init /\ [][NextCounter]_vars

\* A pool created with initializer random_init and mapped over random, with
\* every index, shape parameter and sample row of the model.
NextRandom ==
    \E w \in Workers :
        \/ random_init(w, <<"RawArray", Shape>>)
        \/ \E idx \in Idxs, par \in Pars :
               Started(w) /\ BeginCall(w, "random", idx, par)
        \/ RandomStep(w, ZipfRows(Cols))
        \/ LockedStep(w)

SpecRandom == Init /\ [][NextRandom]_vars

\* The steps of a call that wait for nothing: every statement of counter,
\* counter_nolock and random except the acquisition of the lock.
CallStep(w) ==
    \/ LockedRead(w)
    \/ LockedWrite(w)
    \/ IncrementRaises(w)
    \/ Release(w)
    \/ NolockStep(w)
    \/ RandomStep(w, {[c \in 1..Cols |-> 1]})
    \/ UnboundStep(w)

\* A pool created with initializer random_init and mapped over counter,
\* counter_nolock and random, random called with a row of the buffer or
\* with the first index past it.
NextFair ==
    \E w \in Workers :
        \/ random_init(w, <<"RawArray", Shape>>)
        \/ \E f \in {"counter", "counter_nolock"} :
               Started(w) /\ BeginCall(w, f, NoArg, NoArg)
        \/ \E idx \in {0, Rows} :
               Started(w) /\ BeginCall(w, "random", idx, 2)
        \/ LockedStep(w)
        \/ IncrementRaises(w)
        \/ NolockStep(w)
        \/ Draw(w, [c \in 1..Cols |-> 1])
        \/ IndexErrorAtStore(w)
        \/ StoreElem(w)

\* That pool under fair scheduling: a worker process that can run
\* its next statement eventually runs it, and a worker that finds the lock
\* free again and again is eventually granted it.  Nothing obliges the
\* pool to start an initializer or to submit a call.
SpecFair ==
    /\ Init
    /\ [][NextFair]_vars
    /\ \A w \in Workers : WF_vars(CallStep(w)) /\ SF_vars(Acquire(w))

\* ============================================================ properties
AllIdle == \A w \in Workers : pc[w] = "idle"

\* Positions between taking and releasing the counter's lock.
Guarded == {"read", "write", "exit", "unwind"}

InGuarded == {w \in Workers : pc[w] \in Guarded}

\* Cells of row r of a buffer of Rows x Cols, and the row's content.
RowCells(r) == {r * Cols + c : c \in 0..(Cols - 1)}
RowContent(r) == [c \in 1..Cols |-> shm[r * Cols + (c - 1)]]

\* C1 -- Locked counter.  When every call has ended and all increments went
\* through counter, the value is the initial value plus the number of calls
\* of counter that completed; unless an increment raised, that is every call
\* that was made.  No increment is lost.
C1_LockedCounterExact ==
    (AllIdle /\ ncalls["counter_nolock"] = 0)
        => /\ value = InitValue + nreturned["counter"]
           /\ nraised["Exception"] = 0 => nreturned["counter"] = ncalls["counter"]

\* C1 witness: MaxCalls calls of counter, all completed.
C1_Witness ==
    /\ AllIdle
    /\ ncalls["counter_nolock"] = 0
    /\ nreturned["counter"] = MaxCalls
    /\ value = InitValue + MaxCalls

\* C2 -- Unlocked counter, possible loss.  When a worker has stored a sum
\* computed from a value that another worker's store had overtaken, then
\* after all N calls of counter_nolock the value is strictly less than the
\* initial value plus N.
C2_StaleStoreLosesIncrement ==
    (AllIdle /\ ncalls["counter"] = 0 /\ stale)
        => value < InitValue + nreturned["counter_nolock"]

\* C2 witness: all N >= 2 calls of counter_nolock completed and the value is
\* below the initial value plus N.
C2_Witness ==
    /\ AllIdle
    /\ ncalls["counter"] = 0
    /\ nreturned["counter_nolock"] = ncalls["counter_nolock"]
    /\ nreturned["counter_nolock"] >= 2
    /\ value < InitValue + nreturned["counter_nolock"]

\* C3 -- Unlocked counter, upper bound.  In every state of a run that only
\* calls counter_nolock, the value is at most the initial value plus the
\* number of calls that have completed, hence at most initial + N.
C3_NolockUpperBound ==
    ncalls["counter"] = 0
        => /\ value <= InitValue + nreturned["counter_nolock"]
           /\ nreturned["counter_nolock"] <= ncalls["counter_nolock"]

\* C3 witness: the bound is attained after MaxCalls calls of counter_nolock.
C3_Witness ==
    /\ ncalls["counter"] = 0
    /\ nreturned["counter_nolock"] = MaxCalls
    /\ value = InitValue + MaxCalls

\* C4 -- Mutual exclusion.  At most one worker is between acquiring and
\* releasing the counter's lock, in counter or in random, and that worker
\* owns the lock.
C4_MutualExclusion ==
    /\ Cardinality(InGuarded) <= 1
    /\ \A w \in InGuarded : lock = w

\* C4 witness: a worker inside random's guarded section has read the value
\* while another, inside counter, waits for the lock.
C4_Witness ==
    \E w, v \in Workers :
        /\ pc[w] = "write" /\ call[w].f = "random"
        /\ pc[v] = "enter" /\ call[v].f = "counter"
        /\ gbl_counter[v] # Unbound

\* C5 -- Shared buffer fill.  After random has been called exactly once for
\* each row index 0..Rows-1 and for nothing else, and all these calls have
\* returned, every cell of every row holds an integer >= 1 and the counter
\* is the initial value plus Rows.
C5_OncePerRow ==
    /\ AllIdle
    /\ \A i \in RowIdxs : ndraws[i] = IF i >= 0 THEN 1 ELSE 0
    /\ ncalls["random"] = Rows
    /\ nreturned["random"] = Rows

C5_BufferFilled ==
    C5_OncePerRow
        => /\ \A r \in 0..(Rows - 1) : \A i \in RowCells(r) :
                  shm[i] \in Int /\ shm[i] >= 1
           /\ DOMAIN shm = UNION {RowCells(r) : r \in 0..(Rows - 1)}
           /\ value = InitValue + Rows

\* C5 witness: the calls for all rows have returned and two rows differ.
C5_Witness ==
    /\ C5_OncePerRow
    /\ RowContent(0) # RowContent(Rows - 1)
    /\ value = InitValue + Rows

\* C6 -- Lock release on every exit path.  The lock is owned only by a
\* worker inside the guarded section: never by a worker whose call has
\* returned or raised, so the lock is free whenever no worker is inside.
C6_LockReleasedOnExit ==
    /\ \A w \in Workers : pc[w] \notin Guarded => lock # w
    /\ InGuarded = {} => lock = Free

\* C6 witness: an increment has raised inside the guarded section and a
\* later caller owns the lock.
C6_Witness ==
    /\ nraised["Exception"] > 0
    /\ \E w \in Workers : lock = w /\ pc[w] = "read"

\* C7 -- Initializer before use.  A worker that has not bound gbl_counter is
\* never past the first lookup of a call, and a worker that has not bound
\* gbl_noutput is never past the first lookup of random; the step that ends
\* such a call raises NameError and leaves the counter's value, the buffer
\* and the lock as they were, the lock not being owned by that worker.
C7_NoInitializer(w) ==
    \/ gbl_counter[w] = Unbound
    \/ call[w].f = "random" /\ gbl_noutput[w] = Unbound

C7_InitializerBeforeUse ==
    /\ [](\A w \in Workers :
            C7_NoInitializer(w) => pc[w] \in {"idle", "enter", "n_read", "draw"})
    /\ [][\A w \in Workers :
            (C7_NoInitializer(w) /\ pc[w] # "idle" /\ pc'[w] = "idle")
                => /\ nraised'["NameError"] = nraised["NameError"] + 1
                   /\ nreturned' = nreturned
                   /\ value' = value
                   /\ shm' = shm
                   /\ lock' = lock
                   /\ lock' # w]_vars

\* C7 witness: counter, counter_nolock and random have all been called,
\* every call raised NameError, and the shared state is as it started.
C7_Witness ==
    /\ AllIdle
    /\ \A f \in Funcs : ncalls[f] >= 1
    /\ nraised["NameError"] = Total(ncalls)
    /\ \E w \in Workers : gbl_counter[w] # Unbound /\ gbl_noutput[w] = Unbound
    /\ value = InitValue
    /\ lock = Free
    /\ \A i \in DOMAIN shm : shm[i] = 0

\* Two calls random(i, par) with the same idx i, and no other call of
\* random, have both returned.
C8_TwoCallsSameRow(i) ==
    /\ AllIdle
    /\ ndraws[i] = 2
    /\ ncalls["random"] = 2
    /\ nreturned["random"] = 2

\* C8 as stated -- Row collision is last-write-wins.  After two calls of
\* random with the same idx, row idx is, as a whole, one of the two rows the
\* calls drew, and the counter has gone up by 2.
C8_WholeRowWins ==
    \A i \in 0..(Rows - 1) :
        C8_TwoCallsSameRow(i)
            => /\ RowContent(i) \in drawn[i]
               /\ value = InitValue + 2

\* C8 amended -- after two calls of random with the same idx, every element
\* of row idx is the element at that position of one of the two rows the
\* calls drew (the row may mix the two), and the counter has gone up by 2.
C8_EachElementWins ==
    \A i \in RowIdxs :
        C8_TwoCallsSameRow(i)
            => /\ \A c \in 1..Cols :
                      \E s \in drawn[i] : RowContent(RowOf(Shape, i))[c] = s[c]
               /\ value = InitValue + 2

\* C8 witness: the two calls have returned and the row is neither of the two
\* rows drawn.
C8_Witness ==
    \E i \in RowIdxs :
        /\ i >= 0
        /\ C8_TwoCallsSameRow(i)
        /\ RowContent(i) \notin drawn[i]
        /\ value = InitValue + 2

\* C9 -- Row-disjoint writes.  A step changes a cell of the buffer only if
\* it is a store of a call random(idx, par) and the cell lies in the row idx
\* addresses (row idx itself for idx in 0..Rows-1); and when the calls of
\* random were given pairwise distinct indices in 0..Rows-1, then after all
\* have ended each row holds the samples drawn by the call given that row,
\* and a row given to no call is as it was allocated.
C9_DistinctRows ==
    /\ AllIdle
    /\ \A i \in RowIdxs : ndraws[i] <= (IF i >= 0 THEN 1 ELSE 0)

C9_RowDisjointWrites ==
    /\ [][\A i \in DOMAIN shm :
            shm'[i] # shm[i]
                => \E w \in Workers :
                      /\ pc[w] = "store"
                      /\ col'[w] # col[w]
                      /\ call[w].idx \in RowIdxs
                      /\ i \in RowCells(RowOf(Shape, call[w].idx))
                      /\ call[w].idx >= 0 => i \in RowCells(call[w].idx)]_vars
    /\ [](C9_DistinctRows
            => \A r \in 0..(Rows - 1) :
                  /\ ndraws[r] = 1 => drawn[r] = {RowContent(r)}
                  /\ ndraws[r] = 0 => \A i \in RowCells(r) : shm[i] = 0)

\* C9 witness: calls for distinct rows have ended, each row holds the row
\* drawn for it, and the rows differ.
C9_Witness ==
    /\ C9_DistinctRows
    /\ \A r \in 0..(Rows - 1) : ndraws[r] = 1 /\ drawn[r] = {RowContent(r)}
    /\ RowContent(0) # RowContent(Rows - 1)

\* C10 -- Counter monotonicity on the locked path.  As long as no call of
\* counter_nolock has been made, every step leaves the value as it is or
\* raises it by exactly one.
C10_LockedMonotone ==
    [][ncalls'["counter_nolock"] = 0 => value' \in {value, value + 1}]_vars

\* C10 witness: counter and random, and no counter_nolock, have taken the
\* value from its initial value to MaxCalls above it.
C10_Witness ==
    /\ ncalls["counter_nolock"] = 0
    /\ ncalls["counter"] >= 1
    /\ ncalls["random"] >= 1
    /\ value = InitValue + MaxCalls

\* The running call of w is random(idx, par) with idx in the set outside.
C11_CallOutside(w, outside) ==
    call[w].f = "random" /\ call[w].idx \in outside

\* Such a call never copies an element nor reaches the locked increment.
C11_NeverStores(outside) ==
    \A w \in Workers :
        C11_CallOutside(w, outside)
            => pc[w] \in {"draw", "store"} /\ col[w] = 0

\* C11 as stated -- Out-of-range row index.  A call random(idx, par) with
\* idx not in 0..Rows-1 (and a par the sampler accepts) never stores into
\* the buffer nor increments the counter, and ends by raising IndexError.
C11_OutsideRowsRaises ==
    /\ []C11_NeverStores(Idxs \ (0..(Rows - 1)))
    /\ [][\A w \in Workers :
            (/\ C11_CallOutside(w, Idxs \ (0..(Rows - 1)))
             /\ call[w].par > 1
             /\ pc[w] # "idle" /\ pc'[w] = "idle")
                => /\ nraised'["IndexError"] = nraised["IndexError"] + 1
                   /\ shm' = shm
                   /\ value' = value]_vars

\* C11 amended -- a call random(idx, par) with idx outside -Rows..Rows-1
\* never stores into the buffer, never reaches the locked increment, and
\* ends by raising: IndexError when the sampler accepts par, the sampler's
\* ValueError (raised first) otherwise; buffer, counter and lock are left as
\* they were.  An idx in -Rows..-1 addresses row idx + Rows.
C11_OutsideIndexRangeRaises ==
    /\ []C11_NeverStores(Idxs \ ((0 - Rows)..(Rows - 1)))
    /\ [][\A w \in Workers :
            (/\ C11_CallOutside(w, Idxs \ ((0 - Rows)..(Rows - 1)))
             /\ pc[w] # "idle" /\ pc'[w] = "idle")
                => /\ IF call[w].par > 1
                      THEN nraised'["IndexError"] = nraised["IndexError"] + 1
                      ELSE nraised'["ValueError"] = nraised["ValueError"] + 1
                   /\ nreturned' = nreturned
                   /\ shm' = shm
                   /\ value' = value
                   /\ lock' = lock]_vars

\* C11 witness: every call of random made so far was given an index beyond
\* the buffer and raised IndexError; buffer and counter are as they started.
C11_Witness ==
    /\ AllIdle
    /\ ncalls["random"] = MaxRandom
    /\ nraised["IndexError"] = MaxRandom
    /\ \A i \in DOMAIN shm : shm[i] = 0
    /\ value = InitValue

\* C13 -- Write-before-count ordering in random.  A call of random that is
\* waiting for the lock or inside the guarded section has copied its whole
\* row, and the value is at most the initial value plus the number of calls
\* whose row assignment is done: a reader that sees the counter at k above
\* its start can rely on k completed row writes.
C13_WriteBeforeCount ==
    /\ \A w \in Workers :
           (call[w].f = "random" /\ pc[w] \in Guarded \cup {"enter"})
               => col[w] = Cols
    /\ value <= InitValue + nstored

\* C13 witness: the counter shows one increment while two row writes are
\* done.
C13_Witness ==
    /\ value = InitValue + 1
    /\ nstored = 2
    /\ nreturned["random"] = 1

\* C15 -- Failed sampling leaves shared state untouched.  A call of random
\* with a shape parameter <= 1 never gets past the draw; the step that ends
\* it raises ValueError, leaves buffer, counter and lock as they were, leaves
\* every other worker's call where it was, and the work item is not handed
\* out again by that step.
C15_FailedDrawTouchesNothing ==
    /\ [](\A w \in Workers :
            (call[w].f = "random" /\ call[w].par <= 1) => pc[w] = "draw")
    /\ [][\A w \in Workers :
            (/\ call[w].f = "random" /\ call[w].par <= 1
             /\ gbl_noutput[w] # Unbound
             /\ pc'[w] # pc[w])
                => /\ nraised'["ValueError"] = nraised["ValueError"] + 1
                   /\ nreturned' = nreturned
                   /\ shm' = shm /\ value' = value /\ lock' = lock
                   /\ lock # w
                   /\ pc'[w] = "idle" /\ call'[w] = NoCall
                   /\ ncalls' = ncalls /\ nstored' = nstored
                   /\ \A v \in Workers \ {w} :
                          /\ pc'[v] = pc[v] /\ call'[v] = call[v]
                          /\ tmp'[v] = tmp[v] /\ samples'[v] = samples[v]
                          /\ col'[v] = col[v]]_vars

\* C15 witness: one call of random was rejected by the sampler, another
\* returned, and the counter shows the one that returned.
C15_Witness ==
    /\ AllIdle
    /\ nraised["ValueError"] = 1
    /\ nreturned["random"] = 1
    /\ value = InitValue + 1
    /\ \E r \in 0..(Rows - 1) : \A i \in RowCells(r) : shm[i] = 0

\* C14 -- The lock does not protect against the unlocked path.  In a run
\* of calls of counter and one call of counter_nolock, when the unlocked
\* call has stored a sum computed from a value that a locked increment had
\* since overtaken, then after all calls the value is strictly less than
\* the initial value plus the number of calls that completed.
C14_UnlockedStoreLosesLockedIncrement ==
    (/\ AllIdle
     /\ ncalls["counter"] >= 1
     /\ ncalls["counter_nolock"] = 1
     /\ stale)
        => value < InitValue + nreturned["counter"] + nreturned["counter_nolock"]

\* C14 witness: every call of counter and the one call of counter_nolock
\* completed, none raised, and the value is below initial + calls.
C14_Witness ==
    /\ AllIdle
    /\ ncalls["counter"] >= 1
    /\ ncalls["counter_nolock"] = 1
    /\ nreturned["counter"] = ncalls["counter"]
    /\ nreturned["counter_nolock"] = 1
    /\ value < InitValue + Total(ncalls)

\* C16 -- Initializers only bind.  A step that changes a global of a worker
\* is an initializer run by that worker between calls: the worker had bound
\* nothing, afterwards gbl_counter is the counter and either gbl_output and
\* gbl_noutput stay unbound (counter_init) or they are the view of shape
\* output[1] and the column count output[1][1] (random_init); the counter's
\* value, the buffer, the lock, every call in progress and every other
\* worker's globals are as before.  No step of a call changes a global, and
\* a bound global keeps its binding.
C16_Globals(w) == <<gbl_counter[w], gbl_output[w], gbl_noutput[w]>>

C16_InitializersOnlyBind ==
    [][\A w \in Workers :
        /\ C16_Globals(w)' # C16_Globals(w)
              => /\ pc[w] = "idle"
                 /\ C16_Globals(w) = <<Unbound, Unbound, Unbound>>
                 /\ \/ C16_Globals(w)' = <<Bound("counter"), Unbound, Unbound>>
                    \/ C16_Globals(w)' =
                          <<Bound("counter"), Bound(Shape), Bound(Shape[2])>>
                 /\ value' = value /\ shm' = shm /\ lock' = lock
                 /\ pc' = pc /\ call' = call
                 /\ tmp' = tmp /\ samples' = samples /\ col' = col
                 /\ \A v \in Workers \ {w} : C16_Globals(v)' = C16_Globals(v)
        /\ (pc[w] # "idle" \/ pc'[w] # "idle")
              => C16_Globals(w)' = C16_Globals(w)
        /\ gbl_counter[w] # Unbound => gbl_counter'[w] = gbl_counter[w]
        /\ gbl_output[w] # Unbound => gbl_output'[w] = gbl_output[w]
        /\ gbl_noutput[w] # Unbound => gbl_noutput'[w] = gbl_noutput[w]]_vars

\* C16 witness: a row has been written and the counter incremented, one
\* worker is bound by random_init and another by counter_init, and a call
\* is in progress.
C16_Witness ==
    /\ value > InitValue
    /\ \E i \in DOMAIN shm : shm[i] # 0
    /\ \E w, v \in Workers :
           /\ C16_Globals(w) = <<Bound("counter"), Bound(Shape), Bound(Shape[2])>>
           /\ C16_Globals(v) = <<Bound("counter"), Unbound, Unbound>>
           /\ pc[v] # "idle"

\* C12 -- Progress.  A worker in a call that is not waiting for the lock
\* can always take its next step, and a worker waiting for the lock can
\* take it whenever the lock is free: the lock is the only point at which a
\* call blocks.  While a call is in progress some worker can take a step
\* (no deadlock), the lock being held only by a worker in the guarded
\* block.  Under fair scheduling and fair lock granting every started call
\* of counter, counter_nolock or random ends, returned or raised.
C12_Waiting(w) == pc[w] = "enter" /\ gbl_counter[w] # Unbound

C12_OnlyLockBlocks ==
    \A w \in Workers :
        /\ (pc[w] # "idle" /\ ~C12_Waiting(w)) => ENABLED CallStep(w)
        /\ C12_Waiting(w) => (ENABLED Acquire(w) <=> lock = Free)
        /\ (C12_Waiting(w) /\ lock # Free)
              => /\ lock \in Workers \ {w}
                 /\ pc[lock] \in Guarded
                 /\ ENABLED CallStep(lock)

====
